---------------------------- MODULE Spec2Model ----------------------------
(***************************************************************************)
(* Model of smart_home.py: the device registry (SmartHome), the status     *)
(* reporter (SmartHome.get_status) and the action handler handle_command,  *)
(* driven by the command loop of main.                                     *)
(*                                                                         *)
(* A Python str is a sequence of fragments (TLA+ strings) whose            *)
(* concatenation is the text.  Strings the code inspects character by      *)
(* character (the "param" of a request) are sequences of one-character     *)
(* fragments.  Characters outside ASCII are written by their code point:   *)
(* "U+0131" is the dotless i, "U+00B2" the superscript two, "U+00B0" the   *)
(* degree sign.                                                            *)
(***************************************************************************)
EXTENDS Integers, Sequences, FiniteSets, TLC

VARIABLES
    home,             \* the SmartHome object: light, fan, thermostat
    pc,               \* where main is: "input", "loop", "returned"
    parsed_commands,  \* handle_command's argument, the batch of requests
    k,                \* how many requests of the batch the for loop has taken
    responses,        \* handle_command's local list of outcome messages
    response,         \* what handle_command returned to main
    start,            \* history: the registry when handle_command was called
    log               \* history: per request taken, the registry before and
                      \* after it and the messages it appended

vars == <<home, pc, parsed_commands, k, responses, response, start, log>>

-----------------------------------------------------------------------------
(* Bounds of the model. *)

\* longest batch drawn from Requests
MaxBatch == 2
\* the integers t whose str(t) is sent to the thermostat: -MaxBelow .. MaxAbove
MaxBelow == 3
MaxAbove == 34

-----------------------------------------------------------------------------
(* Python strings. *)

Range(s) == {s[j] : j \in 1..Len(s)}

UpperCase == <<"A","B","C","D","E","F","G","H","I","J","K","L","M",
               "N","O","P","Q","R","S","T","U","V","W","X","Y","Z">>
LowerCase == <<"a","b","c","d","e","f","g","h","i","j","k","l","m",
               "n","o","p","q","r","s","t","u","v","w","x","y","z">>
Digits == <<"0","1","2","3","4","5","6","7","8","9">>

\* str.lower() on one character: A-Z map to a-z, everything else of the
\* model's alphabet (the dotless i included) is unchanged.
lower_char(c) ==
    IF \E j \in 1..26 : UpperCase[j] = c
    THEN LowerCase[CHOOSE j \in 1..26 : UpperCase[j] = c]
    ELSE c

\* str.upper() on one character: a-z map to A-Z, and the dotless i
\* (U+0131) maps to the ASCII capital I.
upper_char(c) ==
    IF \E j \in 1..26 : LowerCase[j] = c
    THEN UpperCase[CHOOSE j \in 1..26 : LowerCase[j] = c]
    ELSE IF c = "U+0131" THEN "I" ELSE c

lower(s) == [j \in 1..Len(s) |-> lower_char(s[j])]
upper(s) == [j \in 1..Len(s) |-> upper_char(s[j])]

\* str.isdigit(): non-empty and every character has the Unicode digit
\* property; besides 0-9 that includes the superscript two, which is a
\* digit but no decimal.
isdigit_char(c) == c \in Range(Digits) \/ c = "U+00B2"
isdigit(s) == Len(s) > 0 /\ \A j \in 1..Len(s) : isdigit_char(s[j])

\* float(s) and int(s) accept a digit string only when every character is
\* a decimal; otherwise they raise ValueError.
is_decimal(s) == Len(s) > 0 /\ \A j \in 1..Len(s) : s[j] \in Range(Digits)

digit_value(c) == (CHOOSE j \in 1..10 : Digits[j] = c) - 1

RECURSIVE int_of(_)
int_of(s) ==
    IF Len(s) = 0 THEN 0
    ELSE 10 * int_of(SubSeq(s, 1, Len(s) - 1)) + digit_value(s[Len(s)])

\* str(n) of a natural number, and of any integer.
RECURSIVE str_nat(_)
str_nat(n) ==
    IF n < 10 THEN <<Digits[n + 1]>>
    ELSE str_nat(n \div 10) \o <<Digits[(n % 10) + 1]>>

str(n) == IF n < 0 THEN <<"-">> \o str_nat(0 - n) ELSE str_nat(n)

\* sep.join(items)
RECURSIVE join(_, _)
join(sep, items) ==
    IF Len(items) = 0 THEN <<>>
    ELSE IF Len(items) = 1 THEN items[1]
    ELSE items[1] \o sep \o join(sep, Tail(items))

-----------------------------------------------------------------------------
(* Device classes. *)

\* class FanSpeed(str, Enum): member name -> value
FanSpeed == [OFF |-> "off", LOW |-> "low", MEDIUM |-> "medium", HIGH |-> "high"]

\* the member names in definition order, spelled out
FanSpeedMembers == <<"OFF", "LOW", "MEDIUM", "HIGH">>
MemberSpelling ==
    [OFF |-> <<"O","F","F">>, LOW |-> <<"L","O","W">>,
     MEDIUM |-> <<"M","E","D","I","U","M">>, HIGH |-> <<"H","I","G","H">>]

\* FanSpeed[name]: the member called name, or KeyError
HasMember(name) == \E m \in DOMAIN FanSpeed : MemberSpelling[m] = name
Member(name) == CHOOSE m \in DOMAIN FanSpeed : MemberSpelling[m] = name

Light == [state |-> FALSE]
Fan == [speed |-> "OFF"]
Thermostat == [temperature |-> 22, state |-> FALSE]

\* SmartHome.__init__
SmartHome == [light |-> Light, fan |-> Fan, thermostat |-> Thermostat]

\* mutant of get_status: the fan is reported by its member name
get_status_member_name(h) ==
    << <<"light", IF h.light.state THEN <<"ON">> ELSE <<"OFF">> >>,
       <<"fan", <<h.fan.speed>> >>,
       <<"thermostat",
         str(h.thermostat.temperature) \o <<"U+00B0", "C (">>
           \o (IF h.thermostat.state THEN <<"ON">> ELSE <<"OFF">>) \o <<")">> >> >>

\* SmartHome.get_status: the dict, as its items in insertion order
get_status(h) ==
    << <<"light", IF h.light.state THEN <<"ON">> ELSE <<"OFF">> >>,
       <<"fan", <<FanSpeed[h.fan.speed]>> >>,
       <<"thermostat",
         str(h.thermostat.temperature) \o <<"U+00B0", "C (">>
           \o (IF h.thermostat.state THEN <<"ON">> ELSE <<"OFF">>) \o <<")">> >> >>

-----------------------------------------------------------------------------
(* Requests: the dicts of parsed_commands. *)

\* what dict.get returns for a key that is absent or holds None
None == "<None>"

\* values of the "param" key
Absent == [t |-> "absent"]
PyNone == [t |-> "None"]
PyInt(n) == [t |-> "int", n |-> n]
PyStr(s) == [t |-> "str", s |-> s]

Request(action, device, param) ==
    [action |-> action, device |-> device, param |-> param, command |-> <<>>]

\* CommandParser.parse_command's fallback: {"action": "unknown", "command": command}
Unknown(command) ==
    [action |-> "unknown", device |-> None, param |-> Absent, command |-> command]

\* parsed.get("param", default)
get_param(parsed, default) ==
    IF parsed.param = Absent THEN default ELSE parsed.param

\* Python truth value of parsed.get("device")
truthy(device) == device # None /\ device # ""

\* the name Python prints for the type of a value that is no str
type_name(v) == IF v.t = "int" THEN "int" ELSE "NoneType"

\* str(e) of the AttributeError raised by calling a str method on a non-str
AttributeError(v, method) ==
    <<"'", type_name(v), "' object has no attribute '", method, "'">>

\* str(e) of the ValueError raised by float(s)
ValueError(s) == <<"could not convert string to float: ", "'">> \o s \o <<"'">>

-----------------------------------------------------------------------------
(* One iteration of handle_command's for loop.  Each branch yields the     *)
(* registry after it, the messages it appended to responses, and the       *)
(* exception it raised, if any (exc is <<>> or <<str(e)>>).                 *)

Done(h, appended) == [home |-> h, appended |-> appended, exc |-> <<>>]
Raise(h, e) == [home |-> h, appended |-> <<>>, exc |-> <<e>>]

\* the error texts of lines 230, 270, 272, and the heads of those of lines
\* 251 and 275
CouldNotUnderstandText == <<"Error: Could not understand the command.">>
OutOfRangeText == <<"Error: Temperature Out Of Range.">>
InvalidTemperatureText == <<"Error: Invalid temperature value.">>
InvalidFanSpeedHead == "Error: Invalid fan speed '"
ExceptionHead == "Error processing command: "

\* mutant of could_not_understand: the request is dropped without a message
could_not_understand_silent(h) == Done(h, <<>>)

\* lines 229-231
could_not_understand(h) == Done(h, <<CouldNotUnderstandText>>)

\* lines 233-234
status_branch(h) ==
    LET items == get_status(h)
        lines == [j \in 1..Len(items) |-> <<items[j][1], ": ">> \o items[j][2]]
    IN Done(h, <<join(<<"\n">>, lines)>>)

\* mutant of light_branch: switching the light off stops the fan too
light_branch_all_off(h, action) ==
    IF action = "turn_on"
    THEN Done([h EXCEPT !.light.state = TRUE], << <<"Light is now ON">> >>)
    ELSE IF action = "turn_off"
    THEN Done([h EXCEPT !.light.state = FALSE, !.fan.speed = "OFF"],
              << <<"Light is now OFF">> >>)
    ELSE Done(h, <<>>)

\* mutant of light_branch: turn_on flips the light instead of setting it
light_branch_toggles(h, action) ==
    IF action = "turn_on"
    THEN Done([h EXCEPT !.light.state = ~h.light.state], << <<"Light is now ON">> >>)
    ELSE IF action = "turn_off"
    THEN Done([h EXCEPT !.light.state = FALSE], << <<"Light is now OFF">> >>)
    ELSE Done(h, <<>>)

\* lines 236-242
light_branch(h, action) ==
    IF action = "turn_on"
    THEN Done([h EXCEPT !.light.state = TRUE], << <<"Light is now ON">> >>)
    ELSE IF action = "turn_off"
    THEN Done([h EXCEPT !.light.state = FALSE], << <<"Light is now OFF">> >>)
    ELSE Done(h, <<>>)

\* lines 245-251
fan_set(h, parsed) ==
    LET param == get_param(parsed, PyStr(<<>>))
    IN IF param.t # "str" THEN Raise(h, AttributeError(param, "lower"))
       ELSE LET speed_str == lower(param.s)
            IN IF HasMember(upper(speed_str))
               THEN Done([h EXCEPT !.fan.speed = Member(upper(speed_str))],
                         << <<"Fan speed set to ">> \o speed_str >>)
               ELSE Done(h,
                         << <<InvalidFanSpeedHead>> \o speed_str
                            \o <<"'. Valid speeds are: ">>
                            \o join(<<", ">>,
                                    [j \in 1..Len(FanSpeedMembers) |->
                                        <<FanSpeedMembers[j]>>]) >>)

\* mutant of fan_branch: turn_on leaves a running fan at its speed
fan_branch_keeps_speed(h, parsed) ==
    IF parsed.action = "set" THEN fan_set(h, parsed)
    ELSE IF parsed.action = "turn_on"
    THEN Done([h EXCEPT !.fan.speed = IF h.fan.speed = "OFF" THEN "LOW" ELSE h.fan.speed],
              << <<"Fan is now ON (set to low)">> >>)
    ELSE IF parsed.action = "turn_off"
    THEN Done([h EXCEPT !.fan.speed = "OFF"], << <<"Fan is now OFF">> >>)
    ELSE Done(h, <<>>)

\* lines 244-257
fan_branch(h, parsed) ==
    IF parsed.action = "set" THEN fan_set(h, parsed)
    ELSE IF parsed.action = "turn_on"
    THEN Done([h EXCEPT !.fan.speed = "LOW"], << <<"Fan is now ON (set to low)">> >>)
    ELSE IF parsed.action = "turn_off"
    THEN Done([h EXCEPT !.fan.speed = "OFF"], << <<"Fan is now OFF">> >>)
    ELSE Done(h, <<>>)

\* mutants of in_range: the upper end one too far, the lower end exclusive
in_range_upto31(temp) == 18 <= temp /\ temp <= 31
in_range_above18(temp) == 18 < temp /\ temp <= 30

\* line 264: 18 <= temp_float <= 30
in_range(temp) == 18 <= temp /\ temp <= 30

\* mutant of thermostat_set: the temperature is stored before the range check
thermostat_set_stores_first(h, parsed) ==
    LET temp_str == get_param(parsed, PyNone)
    IN IF temp_str.t = "None"
       THEN Done(h, <<InvalidTemperatureText>>)
       ELSE IF temp_str.t # "str" THEN Raise(h, AttributeError(temp_str, "isdigit"))
       ELSE IF ~isdigit(temp_str.s)
       THEN Done(h, <<InvalidTemperatureText>>)
       ELSE IF ~is_decimal(temp_str.s) THEN Raise(h, ValueError(temp_str.s))
       ELSE LET temp == int_of(temp_str.s)
                set == [h EXCEPT !.thermostat = [temperature |-> temp, state |-> TRUE]]
            IN IF in_range(temp)
               THEN Done(set, << <<"Thermostat set to ">> \o str(temp) \o <<"U+00B0", "C">> >>)
               ELSE Done(set, <<OutOfRangeText>>)

\* mutant of thermostat_set: the temperature is stored, the thermostat is
\* not switched on
thermostat_set_stays_off(h, parsed) ==
    LET temp_str == get_param(parsed, PyNone)
    IN IF temp_str.t = "None"
       THEN Done(h, <<InvalidTemperatureText>>)
       ELSE IF temp_str.t # "str" THEN Raise(h, AttributeError(temp_str, "isdigit"))
       ELSE IF ~isdigit(temp_str.s)
       THEN Done(h, <<InvalidTemperatureText>>)
       ELSE IF ~is_decimal(temp_str.s) THEN Raise(h, ValueError(temp_str.s))
       ELSE IF in_range(int_of(temp_str.s))
       THEN LET temp == int_of(temp_str.s)
            IN Done([h EXCEPT !.thermostat.temperature = temp],
                    << <<"Thermostat set to ">> \o str(temp) \o <<"U+00B0", "C">> >>)
       ELSE Done(h, <<OutOfRangeText>>)

\* lines 261-272
thermostat_set(h, parsed) ==
    LET temp_str == get_param(parsed, PyNone)
    IN IF temp_str.t = "None"
       THEN Done(h, <<InvalidTemperatureText>>)
       ELSE IF temp_str.t # "str" THEN Raise(h, AttributeError(temp_str, "isdigit"))
       ELSE IF ~isdigit(temp_str.s)
       THEN Done(h, <<InvalidTemperatureText>>)
       ELSE IF ~is_decimal(temp_str.s) THEN Raise(h, ValueError(temp_str.s))
       ELSE IF in_range(int_of(temp_str.s))
       THEN LET temp == int_of(temp_str.s)
            IN Done([h EXCEPT !.thermostat = [temperature |-> temp, state |-> TRUE]],
                    << <<"Thermostat set to ">> \o str(temp) \o <<"U+00B0", "C">> >>)
       ELSE Done(h, <<OutOfRangeText>>)

\* mutant of thermostat_branch: turn_off switches the thermostat off and
\* puts it back to the default temperature
thermostat_branch_turns_off(h, parsed) ==
    IF parsed.action = "set" THEN thermostat_set(h, parsed)
    ELSE IF parsed.action = "turn_off"
    THEN Done([h EXCEPT !.thermostat = Thermostat], << <<"Thermostat is now OFF">> >>)
    ELSE Done(h, <<>>)

\* lines 259-272
thermostat_branch(h, parsed) ==
    IF parsed.action = "set" THEN thermostat_set(h, parsed) ELSE Done(h, <<>>)

\* mutant of try_body: the device is looked at before the action
try_body_device_first(h, parsed) ==
    LET device == parsed.device
        action == parsed.action
    IN IF ~truthy(device) /\ action # "get_status" THEN could_not_understand(h)
       ELSE IF device = "light" THEN light_branch(h, action)
       ELSE IF device = "fan" THEN fan_branch(h, parsed)
       ELSE IF device = "thermostat" THEN thermostat_branch(h, parsed)
       ELSE IF action = "get_status" THEN status_branch(h)
       ELSE Done(h, <<>>)

\* lines 226-272: the body of the try
try_body(h, parsed) ==
    LET device == parsed.device
        action == parsed.action
    IN IF ~truthy(device) /\ action # "get_status" THEN could_not_understand(h)
       ELSE IF action = "get_status" THEN status_branch(h)
       ELSE IF device = "light" THEN light_branch(h, action)
       ELSE IF device = "fan" THEN fan_branch(h, parsed)
       ELSE IF device = "thermostat" THEN thermostat_branch(h, parsed)
       ELSE Done(h, <<>>)

\* mutant of iteration: no except clause, the exception leaves the loop
iteration_no_except(h, parsed) ==
    LET r == try_body(h, parsed)
    IN [home |-> r.home, appended |-> r.appended, escaped |-> r.exc]

\* lines 225-275: try ... except Exception as e.  escaped is the exception
\* that leaves the loop body, <<>> when there is none.
iteration(h, parsed) ==
    LET r == try_body(h, parsed)
    IN IF r.exc # <<>>
       THEN [home |-> r.home,
             appended |-> r.appended \o << <<ExceptionHead>> \o r.exc[1] >>,
             escaped |-> <<>>]
       ELSE [home |-> r.home, appended |-> r.appended, escaped |-> <<>>]

-----------------------------------------------------------------------------
(* The requests the model sends. *)

\* spellings of the "param" of set/fan
FanWords ==
    { <<"h","i","g","h">>, <<"H","I","G","H">>, <<"H","i","g","h">>,
      <<"l","o","w">>, <<"L","o","W">>, <<"m","e","d","i","u","m">>,
      <<"M","E","D","I","U","M">>, <<"o","f","f">>, <<"O","F","F">>,
      <<"f","a","s","t">>, <<"h","i">>, <<"m","e","d">>, <<"o","n">>,
      <<"h","i","g","h"," ">>, <<"h","U+0131","g","h">>, <<>> }

\* spellings of the "param" of set/thermostat that are not str(t)
TempWords ==
    { <<"w","a","r","m">>, <<"2","1",".","5">>, <<"+","2","0">>, <<" ","2","0">>,
      <<"0","2","0">>, <<"0","3","1">>, <<"U+00B2">>, <<"2","U+00B2">>, <<>> }

TempInputs == (0 - MaxBelow)..MaxAbove

NotStr == {Absent, PyNone, PyInt(24)}

\* one request of every shape handle_command tells apart
Requests ==
    { Unknown(<<"xyz">>),
      Request("turn_on", None, Absent),
      Request("get_status", None, Absent),
      Request("get_status", "fan", Absent),
      Request("turn_on", "light", Absent),
      Request("turn_off", "light", Absent),
      Request("set", "light", PyStr(<<"o","n">>)),
      Request("turn_on", "fan", Absent),
      Request("turn_off", "fan", Absent),
      Request("set", "fan", PyStr(<<"H","I","G","H">>)),
      Request("set", "fan", PyStr(<<"f","a","s","t">>)),
      Request("set", "fan", PyNone),
      Request("toggle", "fan", Absent),
      Request("set", "thermostat", PyStr(str(18))),
      Request("set", "thermostat", PyStr(str(30))),
      Request("set", "thermostat", PyStr(str(31))),
      Request("set", "thermostat", PyStr(<<"w","a","r","m">>)),
      Request("set", "thermostat", PyStr(<<"U+00B2">>)),
      Request("set", "thermostat", PyInt(24)),
      Request("turn_off", "thermostat", Absent),
      Request("turn_on", "tv", Absent) }

\* the batches of the examples: status between two mutations, and the demo
SnapshotBatch ==
    << Request("turn_on", "light", Absent),
       Request("get_status", None, Absent),
       Request("turn_off", "light", Absent) >>

DemoBatch ==
    << Request("turn_on", "fan", Absent),
       Request("set", "fan", PyStr(<<"h","i","g","h">>)),
       Request("set", "thermostat", PyStr(str(24))),
       Request("set", "thermostat", PyStr(str(32))),
       Unknown(<<"xyz">>) >>

BatchesOf(S, n) == UNION {[1..m -> S] : m \in 0..n}

Batches == BatchesOf(Requests, MaxBatch) \cup {SnapshotBatch, DemoBatch}

\* every action and device with every param, one request at a time
Actions == {"turn_on", "turn_off", "set", "get_status", "unknown", "toggle", None}
Devices == {"light", "fan", "thermostat", "tv", "", None}

ParamRequests ==
    {Request("set", "fan", p) : p \in {PyStr(w) : w \in FanWords} \cup NotStr}
    \cup {Request("set", "thermostat", p) :
            p \in {PyStr(str(t)) : t \in TempInputs}
                  \cup {PyStr(w) : w \in TempWords} \cup NotStr}
    \cup {Request(a, d, p) : a \in Actions, d \in Devices,
                             p \in {Absent, PyStr(<<"h","i","g","h">>), PyStr(str(24))}}
    \cup {Unknown(<<"xyz">>)}

SingleBatches == {<<>>} \cup {<<r>> : r \in ParamRequests}

-----------------------------------------------------------------------------
(* main's command loop around handle_command. *)

Init ==
    /\ home = SmartHome
    /\ pc = "input"
    /\ parsed_commands = <<>>
    /\ k = 0
    /\ responses = <<>>
    /\ response = <<>>
    /\ start = SmartHome
    /\ log = <<>>

\* main, lines 332-333 (320-321 in demo mode): the parser's output is
\* handed to handle_command, which starts with responses = []
Call(batches) ==
    /\ pc = "input"
    /\ \E batch \in batches : parsed_commands' = batch
    /\ k' = 0
    /\ responses' = <<>>
    /\ pc' = "loop"
    /\ start' = home
    /\ log' = <<>>
    /\ UNCHANGED <<home, response>>

\* handle_command, lines 224-275: the loop body on the next request.  An
\* exception that leaves the body leaves handle_command.
Iterate ==
    /\ pc = "loop"
    /\ k < Len(parsed_commands)
    /\ LET r == iteration(home, parsed_commands[k + 1])
       IN /\ home' = r.home
          /\ responses' = responses \o r.appended
          /\ pc' = IF r.escaped # <<>> THEN "raised" ELSE "loop"
          /\ log' = Append(log, [request |-> parsed_commands[k + 1],
                                  before |-> home,
                                  appended |-> r.appended,
                                  after |-> r.home])
    /\ k' = k + 1
    /\ UNCHANGED <<parsed_commands, response, start>>

\* mutant of Return: an empty responses list is answered with an error text
Return_not_understood ==
    /\ pc = "loop"
    /\ k = Len(parsed_commands)
    /\ response' = (IF responses = <<>> THEN CouldNotUnderstandText
                    ELSE join(<<"\n">>, responses))
    /\ pc' = "returned"
    /\ UNCHANGED <<home, parsed_commands, k, responses, start, log>>

\* handle_command, line 276
Return ==
    /\ pc = "loop"
    /\ k = Len(parsed_commands)
    /\ response' = join(<<"\n">>, responses)
    /\ pc' = "returned"
    /\ UNCHANGED <<home, parsed_commands, k, responses, start, log>>

\* main, line 334 (322): the response is printed, handle_command's frame is
\* gone and the loop is back at its input
Output ==
    /\ pc = "returned"
    /\ pc' = "input"
    /\ parsed_commands' = <<>>
    /\ k' = 0
    /\ responses' = <<>>
    /\ response' = <<>>
    /\ start' = home
    /\ log' = <<>>
    /\ UNCHANGED home

CallBatch == Call(Batches)
CallSingle == Call(SingleBatches)

Next == CallBatch \/ Iterate \/ Return \/ Output
Spec == Init /\ [][Next]_vars

NextParam == CallSingle \/ Iterate \/ Return \/ Output
SpecParam == Init /\ [][NextParam]_vars

TypeOK ==
    /\ pc \in {"input", "loop", "returned", "raised"}
    /\ k \in 0..Len(parsed_commands)
    /\ home.light.state \in BOOLEAN
    /\ home.fan.speed \in DOMAIN FanSpeed
    /\ home.thermostat.state \in BOOLEAN

-----------------------------------------------------------------------------
(* Reading the outcomes.  The code has no outcome type: an outcome is the  *)
(* message appended to responses, and its kind is read off its text.       *)

IsInvalidFanSpeed(msg) == msg[1] = InvalidFanSpeedHead
IsException(msg) == msg[1] = ExceptionHead

IsFailure(msg) ==
    \/ msg \in {CouldNotUnderstandText, OutOfRangeText, InvalidTemperatureText}
    \/ IsInvalidFanSpeed(msg)
    \/ IsException(msg)
IsSuccess(msg) == ~IsFailure(msg)

\* the history is the run: entry j is request j, taken in the registry the
\* requests before it left
LogOK ==
    /\ Len(log) = k
    /\ \A j \in 1..k :
         /\ log[j].request = parsed_commands[j]
         /\ log[j].before = (IF j = 1 THEN start ELSE log[j - 1].after)
    /\ home = (IF k = 0 THEN start ELSE log[k].after)

-----------------------------------------------------------------------------
(* C1 *)

\* C1: after the k-th request of a batch has been processed, responses holds
\* exactly k messages, and the j-th message is the one the j-th request
\* appended.
C1_OneOutcomePerRequest ==
    /\ Len(responses) = k
    /\ \A j \in 1..k :
         j <= Len(responses) /\ log[j].appended = <<responses[j]>>

-----------------------------------------------------------------------------
(* C2 *)

\* C2: in every reachable state the thermostat temperature is an integer
\* between 18 and 30.
C2_TemperatureInRange ==
    /\ home.thermostat.temperature \in Int
    /\ 18 <= home.thermostat.temperature
    /\ home.thermostat.temperature <= 30

\* a request for 31 degrees has been processed and the thermostat kept 30
C2_Witness ==
    /\ pc = "returned"
    /\ k = 1
    /\ log[1].request = Request("set", "thermostat", PyStr(str(31)))
    /\ log[1].before.thermostat.temperature = 30
    /\ home.thermostat.temperature = 30

-----------------------------------------------------------------------------
(* C3 *)

\* C3: for every integer t, set/thermostat with param str(t) succeeds iff
\* 18 <= t <= 30; on success the thermostat is at t and on and nothing else
\* changed; on failure the registry is unchanged; 17 and 31 fail with the
\* out-of-range message.
C3_ThermostatRange ==
    \A t \in TempInputs :
        (k = 1 /\ log[1].request = Request("set", "thermostat", PyStr(str(t))))
        => LET e == log[1]
           IN /\ LogOK
              /\ Len(e.appended) = 1
              /\ IsSuccess(e.appended[1]) <=> (18 <= t /\ t <= 30)
              /\ IsSuccess(e.appended[1]) =>
                    e.after = [e.before EXCEPT
                                 !.thermostat = [temperature |-> t, state |-> TRUE]]
              /\ IsFailure(e.appended[1]) => e.after = e.before
              /\ t \in {17, 31} => e.appended[1] = OutOfRangeText

\* str(18) has been accepted by a thermostat that was off at its default
C3_Witness ==
    /\ k = 1
    /\ log[1].request = Request("set", "thermostat", PyStr(str(18)))
    /\ log[1].before.thermostat = Thermostat
    /\ home.thermostat = [temperature |-> 18, state |-> TRUE]

-----------------------------------------------------------------------------
(* C4 *)

Succeeded(e) == Len(e.appended) = 1 /\ IsSuccess(e.appended[1])
Failed(e) == Len(e.appended) = 1 /\ IsFailure(e.appended[1])

\* the registry obtained from h by applying, in order, those of the requests
\* j..k of the batch that succeeded
RECURSIVE ReplaySuccessful(_, _)
ReplaySuccessful(h, j) ==
    IF j > k THEN h
    ELSE ReplaySuccessful(IF Succeeded(log[j])
                          THEN iteration(h, log[j].request).home
                          ELSE h,
                          j + 1)

\* C4: a failed request changes nothing and stops nothing: no exception
\* ends the batch, handle_command returns only after every request was taken,
\* and the registry is the starting registry with only the successful
\* requests applied, in order.
C4_FailureIsolated ==
    /\ LogOK
    /\ pc # "raised"
    /\ \A j \in 1..k : Failed(log[j]) => log[j].after = log[j].before
    /\ pc \in {"loop", "returned"} => home = ReplaySuccessful(start, 1)
    /\ pc = "returned" => k = Len(parsed_commands)

\* 31 degrees was refused, the 18 degrees after it went through
C4_Witness ==
    /\ pc = "returned"
    /\ k = 2
    /\ log[1].request = Request("set", "thermostat", PyStr(str(31)))
    /\ log[1].appended = <<OutOfRangeText>>
    /\ log[2].request = Request("set", "thermostat", PyStr(str(18)))
    /\ start.thermostat.temperature = 30
    /\ home.thermostat.temperature = 18

-----------------------------------------------------------------------------
(* C5 *)

OnOff(b) == IF b THEN "ON" ELSE "OFF"

\* msg is the status text of registry h
StatusReports(msg, h) ==
    msg = <<"light", ": ", OnOff(h.light.state), "\n",
            "fan", ": ", FanSpeed[h.fan.speed], "\n",
            "thermostat", ": ">> \o str(h.thermostat.temperature)
          \o <<"U+00B0", "C (", OnOff(h.thermostat.state), ")">>

\* C5: a get_status request, whatever its device, leaves the registry as it
\* is and appends the status of the registry as the requests before it left
\* it; in [turn_on light, get_status, turn_off light] the status reports the
\* light ON, also after the third request has turned it off.
C5_StatusSnapshot ==
    /\ LogOK
    /\ \A j \in 1..k :
         log[j].request.action = "get_status" =>
           /\ log[j].after = log[j].before
           /\ Len(log[j].appended) = 1
           /\ StatusReports(log[j].appended[1], log[j].before)
    /\ (parsed_commands = SnapshotBatch /\ k >= 2) =>
           /\ Len(responses) = k
           /\ responses[2][3] = "ON"
           /\ k = 3 => ~home.light.state

\* the example batch has run from a dark registry: status says ON, light is off
C5_Witness ==
    /\ pc = "returned"
    /\ parsed_commands = SnapshotBatch
    /\ ~start.light.state
    /\ StatusReports(responses[2], [start EXCEPT !.light.state = TRUE])
    /\ ~home.light.state

-----------------------------------------------------------------------------
(* C6 *)

\* the speeds whose canonical name equals w when case is ignored
SpeedsNamed(w) == {m \in DOMAIN FanSpeed : lower(MemberSpelling[m]) = lower(w)}

\* C6: set/fan with a string param that is one of off, low, medium, high up
\* to case succeeds and sets that speed; with any other string, or without
\* a param, it fails with the invalid-fan-speed message and the speed stays.
C6_FanSpeedDomain ==
    (/\ k = 1
     /\ log[1].request.action = "set"
     /\ log[1].request.device = "fan"
     /\ log[1].request.param.t \in {"str", "absent"})
    => LET e == log[1]
           w == IF e.request.param.t = "str" THEN e.request.param.s ELSE <<>>
       IN /\ Len(e.appended) = 1
          /\ IF SpeedsNamed(w) # {}
             THEN /\ IsSuccess(e.appended[1])
                  /\ e.after = [e.before EXCEPT !.fan.speed = CHOOSE m \in SpeedsNamed(w) : TRUE]
             ELSE /\ IsInvalidFanSpeed(e.appended[1])
                  /\ e.after = e.before

-----------------------------------------------------------------------------
(* C7 *)

\* text occurs in msg
Echoes(msg, text) ==
    \E j \in 1..Len(msg) :
        j + Len(text) - 1 <= Len(msg) /\ SubSeq(msg, j, j + Len(text) - 1) = text

\* C7: a request the translator marked unrecognized (action "unknown", with
\* the original command text) appends exactly one failure message, which
\* echoes the original text, and leaves the registry unchanged.
C7_UnrecognizedEchoed ==
    \A j \in 1..k :
        (log[j].request.action = "unknown" /\ log[j].request.command # <<>>)
        => /\ Len(log[j].appended) = 1
           /\ IsFailure(log[j].appended[1])
           /\ Echoes(log[j].appended[1], log[j].request.command)
           /\ log[j].after = log[j].before

-----------------------------------------------------------------------------
(* C8 *)

\* the device/action pairs that have a transition
Defined(r) ==
    \/ r.device = "light" /\ r.action \in {"turn_on", "turn_off"}
    \/ r.device = "fan" /\ r.action \in {"turn_on", "turn_off", "set"}
    \/ r.device = "thermostat" /\ r.action = "set"

\* C8: a request that names a device and whose device/action pair has no
\* transition appends exactly one failure message and leaves the registry
\* unchanged.
C8_UndefinedPairFails ==
    \A j \in 1..k :
        (/\ truthy(log[j].request.device)
         /\ log[j].request.action # "get_status"
         /\ ~Defined(log[j].request))
        => /\ Len(log[j].appended) = 1
           /\ IsFailure(log[j].appended[1])
           /\ log[j].after = log[j].before

-----------------------------------------------------------------------------
(* C9 *)

\* the requests on which a statement of the loop body raises: a str method
\* called on a param that is no str, float() of digits that are no decimals
Raises(r) ==
    /\ r.action = "set"
    /\ \/ r.device = "fan" /\ r.param.t \in {"None", "int"}
       \/ r.device = "thermostat" /\ r.param.t = "int"
       \/ /\ r.device = "thermostat"
          /\ r.param.t = "str"
          /\ isdigit(r.param.s)
          /\ \E j \in 1..Len(r.param.s) : r.param.s[j] \notin Range(Digits)

\* C9: no exception leaves handle_command; a request that raises gets the
\* "Error processing command" message as its outcome and changes nothing;
\* the loop is always at a request of the batch or at its end, where it
\* returns, and handle_command has returned only with every request taken
\* and the messages joined.
C9_Total ==
    /\ pc # "raised"
    /\ pc = "loop" => k <= Len(parsed_commands)
    /\ \A j \in 1..k :
         Raises(log[j].request) =>
           /\ Len(log[j].appended) = 1
           /\ IsException(log[j].appended[1])
           /\ log[j].after = log[j].before
    /\ pc = "returned" => k = Len(parsed_commands) /\ response = join(<<"\n">>, responses)

\* a batch whose first request raised (float of a superscript two) and whose
\* second request was still carried out has returned
C9_Witness ==
    /\ pc = "returned"
    /\ k = 2
    /\ log[1].request = Request("set", "thermostat", PyStr(<<"U+00B2">>))
    /\ IsException(log[1].appended[1])
    /\ log[2].request = Request("set", "fan", PyNone)
    /\ IsException(log[2].appended[1])
    /\ Len(responses) = 2

-----------------------------------------------------------------------------
(* C10 *)

\* C10: for an empty batch handle_command collects no outcome, returns the
\* empty text and leaves the registry as it was.
C10_EmptyBatch ==
    (pc = "returned" /\ parsed_commands = <<>>)
    => /\ responses = <<>>
       /\ response = <<>>
       /\ home = start

\* an empty batch has returned in a session that had changed the registry
C10_Witness ==
    /\ pc = "returned"
    /\ parsed_commands = <<>>
    /\ response = <<>>
    /\ home # SmartHome

-----------------------------------------------------------------------------
(* C11 *)

\* C11: from the default registry the batch [turn_on fan, set fan "high",
\* set thermostat "24", set thermostat "32", unrecognized "xyz"] collects
\* exactly five messages, in this order: fan on (low), fan speed high,
\* thermostat 24 degrees, the out-of-range error, the error of a request
\* that was not understood; the fan passes through low, and the registry
\* ends with the light off, the fan high and the thermostat at 24 and on.
C11_DemoScenario ==
    (pc = "returned" /\ start = SmartHome /\ parsed_commands = DemoBatch)
    => /\ responses =
            << <<"Fan is now ON (set to low)">>,
               <<"Fan speed set to ", "h", "i", "g", "h">>,
               <<"Thermostat set to ", "2", "4", "U+00B0", "C">>,
               OutOfRangeText,
               CouldNotUnderstandText >>
       /\ \A j \in 1..3 : IsSuccess(responses[j])
       /\ \A j \in 4..5 : IsFailure(responses[j])
       /\ log[1].after.fan.speed = "LOW"
       /\ home = [light |-> [state |-> FALSE],
                  fan |-> [speed |-> "HIGH"],
                  thermostat |-> [temperature |-> 24, state |-> TRUE]]

\* the demo batch has run from the default registry and returned
C11_Witness ==
    /\ pc = "returned"
    /\ start = SmartHome
    /\ parsed_commands = DemoBatch
    /\ Len(responses) = 5
    /\ home.fan.speed = "HIGH"
    /\ home.thermostat.temperature = 24

-----------------------------------------------------------------------------
(* C12 *)

IsLightSwitch(r) == r.device = "light" /\ r.action \in {"turn_on", "turn_off"}

\* C12: turn_on light and turn_off light never fail: each appends its
\* success message and leaves the light on, respectively off, whatever the
\* registry was; applied a second time right after, the registry is the one
\* the first application left.
C12_LightIdempotent ==
    \A j \in 1..k :
        IsLightSwitch(log[j].request)
        => LET on == log[j].request.action = "turn_on"
           IN /\ log[j].appended =
                    << <<IF on THEN "Light is now ON" ELSE "Light is now OFF">> >>
              /\ IsSuccess(log[j].appended[1])
              /\ log[j].after = [log[j].before EXCEPT !.light.state = on]
              /\ (j > 1 /\ log[j - 1].request = log[j].request)
                    => log[j].after = log[j - 1].after

\* turn_on light has been applied twice to a registry whose light was off
C12_Witness ==
    /\ k = 2
    /\ log[1].request = Request("turn_on", "light", Absent)
    /\ log[2].request = Request("turn_on", "light", Absent)
    /\ ~start.light.state
    /\ home.light.state
    /\ Len(responses) = 2

-----------------------------------------------------------------------------
(* C13 *)

\* s consists only of the decimal digits 0-9 (and is not empty)
OnlyDecimalDigits(s) == Len(s) > 0 /\ \A j \in 1..Len(s) : s[j] \in Range(Digits)

\* C13: set/thermostat with a string param that does not consist only of
\* decimal digits, or without a param, appends the invalid-temperature
\* message, not the out-of-range one, and leaves the thermostat as it is.
C13_NonNumericTemperature ==
    \A j \in 1..k :
        (/\ log[j].request.action = "set"
         /\ log[j].request.device = "thermostat"
         /\ \/ log[j].request.param = Absent
            \/ /\ log[j].request.param.t = "str"
               /\ ~OnlyDecimalDigits(log[j].request.param.s))
        => /\ log[j].appended = <<InvalidTemperatureText>>
           /\ log[j].after.thermostat = log[j].before.thermostat

-----------------------------------------------------------------------------
(* C14 *)

\* a request with an action of the translator's vocabulary and no device
MissingDevice(r) ==
    ~truthy(r.device) /\ r.action \in {"turn_on", "turn_off", "set"}

\* a request the translator marked unrecognized
Unrecognized(r) == r.action = "unknown" /\ r.command # <<>>

\* C14: a request other than get_status that names no device appends
\* exactly one failure message and leaves the registry unchanged, and that
\* message differs from the one an unrecognized request gets.
C14_MissingDeviceDistinct ==
    \A j \in 1..k :
        MissingDevice(log[j].request)
        => /\ Len(log[j].appended) = 1
           /\ IsFailure(log[j].appended[1])
           /\ log[j].after = log[j].before
           /\ \A i \in 1..k :
                Unrecognized(log[i].request) => log[i].appended # log[j].appended

-----------------------------------------------------------------------------
(* C15 *)

\* C15: turn_on fan leaves the fan at low, whatever its speed was, and
\* turn_off fan leaves it off; both append their success message and touch
\* nothing else.
C15_FanOnOff ==
    \A j \in 1..k :
        (log[j].request.device = "fan"
         /\ log[j].request.action \in {"turn_on", "turn_off"})
        => LET on == log[j].request.action = "turn_on"
           IN /\ log[j].appended =
                    << <<IF on THEN "Fan is now ON (set to low)" ELSE "Fan is now OFF">> >>
              /\ IsSuccess(log[j].appended[1])
              /\ log[j].after =
                    [log[j].before EXCEPT !.fan.speed = IF on THEN "LOW" ELSE "OFF"]

\* turn_on fan has been applied to a fan running at medium
C15_Witness ==
    /\ k = 1
    /\ log[1].request = Request("turn_on", "fan", Absent)
    /\ log[1].before.fan.speed = "MEDIUM"
    /\ home.fan.speed = "LOW"

-----------------------------------------------------------------------------
(* C16 *)

\* the lines of a text: its fragments between the line breaks
RECURSIVE LinesOf(_)
LinesOf(text) ==
    IF \A j \in 1..Len(text) : text[j] # "\n" THEN <<text>>
    ELSE LET cut == CHOOSE j \in 1..Len(text) :
                       text[j] = "\n" /\ \A i \in 1..(j - 1) : text[i] # "\n"
         IN <<SubSeq(text, 1, cut - 1)>> \o LinesOf(SubSeq(text, cut + 1, Len(text)))

\* C16: the status text of a registry has exactly three lines, for light,
\* fan and thermostat in this order, each starting with the device name and
\* ": "; the light reads ON or OFF, the fan its lowercase speed name, the
\* thermostat its temperature in decimal, the degree sign, C and (ON) or
\* (OFF); each value is that of the registry at the request, so the text is
\* a function of the registry alone.
C16_StatusFormat ==
    \A j \in 1..k :
        log[j].request.action = "get_status"
        => LET h == log[j].before
               lines == LinesOf(log[j].appended[1])
           IN /\ Len(log[j].appended) = 1
              /\ Len(lines) = 3
              /\ SubSeq(lines[1], 1, 2) = <<"light", ": ">>
              /\ SubSeq(lines[2], 1, 2) = <<"fan", ": ">>
              /\ SubSeq(lines[3], 1, 2) = <<"thermostat", ": ">>
              /\ SubSeq(lines[1], 3, Len(lines[1])) \in {<<"ON">>, <<"OFF">>}
              /\ (lines[1][3] = "ON") <=> h.light.state
              /\ SubSeq(lines[2], 3, Len(lines[2])) \in
                    {<<"off">>, <<"low">>, <<"medium">>, <<"high">>}
              /\ lines[2][3] = (CASE h.fan.speed = "OFF" -> "off"
                                  [] h.fan.speed = "LOW" -> "low"
                                  [] h.fan.speed = "MEDIUM" -> "medium"
                                  [] h.fan.speed = "HIGH" -> "high")
              /\ \E t \in 18..30 :
                    /\ h.thermostat.temperature = t
                    /\ SubSeq(lines[3], 3, Len(lines[3])) =
                         <<Digits[(t \div 10) + 1], Digits[(t % 10) + 1],
                           "U+00B0", "C (",
                           IF h.thermostat.state THEN "ON" ELSE "OFF", ")">>

\* the status of a registry with the light on, the fan at medium and the
\* thermostat at 30 and on has been reported
C16_Witness ==
    /\ k = 1
    /\ log[1].request.action = "get_status"
    /\ home.light.state
    /\ home.fan.speed = "MEDIUM"
    /\ home.thermostat = [temperature |-> 30, state |-> TRUE]
    /\ Len(responses) = 1
    /\ Len(LinesOf(responses[1])) = 3

-----------------------------------------------------------------------------
(* C17 *)

\* C17: in every state of the registry a thermostat that is off holds the
\* default temperature 22; a temperature other than 22 implies it is on.
C17_OffMeansDefault ==
    /\ ~home.thermostat.state => home.thermostat.temperature = Thermostat.temperature
    /\ home.thermostat.temperature # 22 => home.thermostat.state
    /\ \A j \in 1..k :
          ~log[j].after.thermostat.state => log[j].after.thermostat.temperature = 22

\* a set that succeeded has taken the thermostat from off at 22 to on at 19
C17_Witness ==
    /\ k = 1
    /\ log[1].request.device = "thermostat"
    /\ log[1].request.action = "set"
    /\ log[1].before.thermostat = [temperature |-> 22, state |-> FALSE]
    /\ home.thermostat = [temperature |-> 19, state |-> TRUE]

-----------------------------------------------------------------------------
(* C18 *)

\* C18: the thermostat's on flag is monotonic: no step of the session, of
\* any request of any batch (turn_off thermostat included), takes the
\* registry from thermostat on to thermostat off.
C18_OnIsMonotonic ==
    [][home.thermostat.state => home'.thermostat.state]_vars

\* turn_off thermostat has been processed on a thermostat that was on, in a
\* batch after the one that turned it on, and the thermostat is still on
C18_Witness ==
    /\ k = 1
    /\ log[1].request = Request("turn_off", "thermostat", Absent)
    /\ start.thermostat.state
    /\ log[1].before.thermostat.state
    /\ home.thermostat.state

-----------------------------------------------------------------------------
(* C19 *)

\* C19: a request changes at most the device it names: with device light
\* the fan and the thermostat are as before, with device fan the light and
\* the thermostat, with device thermostat the light and the fan; a request
\* with no device or with a device the registry does not have changes
\* nothing.
C19_Frame ==
    \A j \in 1..k :
        LET r == log[j].request
            b == log[j].before
            a == log[j].after
        IN /\ r.device = "light" => a.fan = b.fan /\ a.thermostat = b.thermostat
           /\ r.device = "fan" => a.light = b.light /\ a.thermostat = b.thermostat
           /\ r.device = "thermostat" => a.light = b.light /\ a.fan = b.fan
           /\ r.device \notin {"light", "fan", "thermostat"} => a = b

\* turn_off light has changed the light while the fan was running and the
\* thermostat was on at 30
C19_Witness ==
    /\ k = 1
    /\ log[1].request = Request("turn_off", "light", Absent)
    /\ log[1].before.light.state
    /\ ~home.light.state
    /\ home.fan.speed = "HIGH"
    /\ home.thermostat = [temperature |-> 30, state |-> TRUE]

=============================================================================
